---- MODULE Spec2Model ----
(***************************************************************************)
(* OpenCvVideoDecoderCalculator                                            *)
(* (mediapipe/calculators/video/opencv_video_decoder_calculator.cc).       *)
(*                                                                         *)
(* The calculator is driven by the framework through Open, Process and     *)
(* Close.  Its state is the private members (cap_, width_, height_,        *)
(* frame_count_, decoded_frames_, format_, prev_timestamp_) and what it    *)
(* has put on its two output streams.  The video file behind               *)
(* cv::VideoCapture is the environment: it is drawn in Init and never      *)
(* changes.                                                                *)
(*                                                                         *)
(* cv::VideoCapture is modelled as a cursor over the file's frames.  Its   *)
(* CAP_PROP_POS_MSEC is the presentation time of the frame decoded last    *)
(* (0 at the start of the file and after a rewind to the start); a read    *)
(* past the last frame yields an empty cv::Mat and moves nothing, and so   *)
(* does a read of a frame the codec cannot decode.                         *)
(***************************************************************************)
EXTENDS Integers, Sequences, FiniteSets, TLC

\* ------------------------------------------------------------ bounds
\* Longest video file explored, in frames.
MaxFrames == 4
\* How many times the framework may call Close in one run.
MaxCloses == 2
\* How many Process calls are explored once a read has returned no frame.
MaxEndCalls == 2

\* Presentation positions, in milliseconds, a frame of the file may carry.
Positions == {0, 33, 66}
\* Container metadata VideoCapture::get may report.
Widths == {0, 640}
Heights == {-1, 480}
FrameRates == {0, 30}
FrameCounts == {0, 2, 90}
\* Channel counts the probe frame may have.
ChannelCounts == {1, 2, 3, 4}

\* ------------------------------------------------------------ values
\* ImageFormat::Format
UNKNOWN == "UNKNOWN"
GRAY8 == "GRAY8"
SRGB == "SRGB"
SRGBA == "SRGBA"
\* format_ before Open has assigned it.
UninitFormat == "uninitialized"
\* width_, height_, frame_count_ before Open has assigned them: an
\* indeterminate int, told apart from every value a file reports.
Uninit == -999

\* Timestamp::Unset() and Timestamp::PreStream(): special values below every
\* timestamp that Timestamp(int64) can build, Unset the lowest.  Only their
\* order is used.
TimestampUnset == -2
TimestampPreStream == -1

\* ::mediapipe::Status values returned by the three calls.
OkStatus == "OK"
StatusStop == "STOP"
FailOpen == "Fail to open video file"
FailRead == "Fail to read any frames from the video file"
FailFormat == "Unsupported video format of the video file"
FailMetadata == "Fail to make video header due to the incorrect metadata"
NotCalled == "not called"

\* cv::Mat::empty() after a read that decoded nothing.
NoFrame == -1

VARIABLES
  file,             \* the video file at INPUT_FILE_PATH
  hasPrestream,     \* cc->Outputs().HasTag("VIDEO_PRESTREAM")
  cap_, width_, height_, frame_count_, decoded_frames_, format_,
  prev_timestamp_,
  outputs,          \* packets added to the output streams, in order
  prestreamClosed,  \* VIDEO_PRESTREAM has been closed
  warnings,         \* LOG(WARNING) lines written by Close
  openStatus,       \* what Open returned (NotCalled before Open)
  closeCalls,       \* number of Close calls so far
  endCalls,         \* Process calls whose read returned an empty frame
  last              \* the call made last and what it returned

vars == <<file, hasPrestream, cap_, width_, height_, frame_count_,
          decoded_frames_, format_, prev_timestamp_, outputs,
          prestreamClosed, warnings, openStatus, closeCalls, endCalls, last>>

\* ------------------------------------------------------------ cv::VideoCapture
\* std::unique_ptr<cv::VideoCapture> cap_, default-constructed: null.
NullCap == [exists |-> FALSE, isOpened |-> FALSE, idx |-> 0, pos |-> 0]

\* absl::make_unique<cv::VideoCapture>(input_file_path)
VideoCapture(f) == [exists |-> TRUE, isOpened |-> f.canOpen, idx |-> 0, pos |-> 0]

\* cap_->get(cv::CAP_PROP_POS_MSEC)
CapGetPosMsec(cap) == IF cap.isOpened THEN cap.pos ELSE 0

\* cap_->read(frame): the frame decoded (its 0-based index, NoFrame for an
\* empty cv::Mat) and the capture afterwards.  The frame numbered f.faultAt
\* (counting from 1; 0 for none) is in the file but cannot be decoded.
CapRead(cap, f) ==
  IF cap.isOpened /\ cap.idx < Len(f.frames) /\ f.faultAt # cap.idx + 1
  THEN [frame |-> cap.idx,
        cap |-> [cap EXCEPT !.idx = cap.idx + 1, !.pos = f.frames[cap.idx + 1]]]
  ELSE [frame |-> NoFrame, cap |-> cap]

\* A rewind that was forgotten.
CapRewindMissing(cap) == cap

\* cap_->set(cv::CAP_PROP_POS_AVI_RATIO, 0)
CapRewind(cap) == [cap EXCEPT !.idx = 0, !.pos = 0]

\* A release that leaves the session open.
CapReleaseMissing(cap) == cap

\* if (cap_ && cap_->isOpened()) cap_->release();
CapRelease(cap) ==
  IF cap.exists /\ cap.isOpened THEN [cap EXCEPT !.isOpened = FALSE] ELSE cap

\* ------------------------------------------------------------ helpers
\* A format mapping that takes every multi-channel frame for colour.
GetImageFormatLax(num_channels) ==
  IF num_channels = 1 THEN GRAY8
  ELSE IF num_channels = 4 THEN SRGBA
  ELSE SRGB

GetImageFormat(num_channels) ==
  CASE num_channels = 1 -> GRAY8
    [] num_channels = 3 -> SRGB
    [] num_channels = 4 -> SRGBA
    [] OTHER -> UNKNOWN

\* A metadata check that forgets the height.
MetadataInvalidNoHeight(fps, frame_count, width, height) ==
  fps <= 0 \/ frame_count <= 0 \/ width <= 0

\* fps <= 0 || frame_count_ <= 0 || width_ <= 0 || height_ <= 0
MetadataInvalid(fps, frame_count, width, height) ==
  fps <= 0 \/ frame_count <= 0 \/ width <= 0 \/ height <= 0

RECURSIVE Gcd(_, _)
Gcd(a, b) == IF b = 0 THEN a ELSE Gcd(b, a % b)

\* The double quotient a / b of non-negative integers, as the fraction in
\* lowest terms (1/0 is +inf, 0/0 is NaN: a double division never traps).
Fraction(a, b) ==
  IF Gcd(a, b) = 0 THEN [num |-> 0, den |-> 0]
  ELSE [num |-> a \div Gcd(a, b), den |-> b \div Gcd(a, b)]

\* A duration computed upside down.
HeaderDurationInverted(frame_count, fps) == Fraction(fps, frame_count)

\* header->duration = frame_count_ / fps
HeaderDuration(frame_count, fps) == Fraction(frame_count, fps)

\* The VideoHeader built by Open.
VideoHeader(format, width, height, fps, frame_count) ==
  [format |-> format, width |-> width, height |-> height, frame_rate |-> fps,
   duration |-> HeaderDuration(frame_count, fps)]

\* An Open that validates the metadata before it looks at the probe frame.
OpenReturnMetadataFirst(f) ==
  IF ~VideoCapture(f).isOpened THEN FailOpen
  ELSE IF MetadataInvalid(f.fps, f.frame_count, f.width, f.height) THEN FailMetadata
  ELSE IF CapRead(VideoCapture(f), f).frame = NoFrame THEN FailRead
  ELSE IF GetImageFormat(f.channels) = UNKNOWN THEN FailFormat
  ELSE OkStatus

\* The check on which Open returns, in the order of its return statements.
OpenReturn(f) ==
  IF ~VideoCapture(f).isOpened THEN FailOpen
  ELSE IF CapRead(VideoCapture(f), f).frame = NoFrame THEN FailRead
  ELSE IF GetImageFormat(f.channels) = UNKNOWN THEN FailFormat
  ELSE IF MetadataInvalid(f.fps, f.frame_count, f.width, f.height) THEN FailMetadata
  ELSE OkStatus

\* A header put on the stream before the metadata has been validated.
ReachesHeaderEarly(status) == status \in {OkStatus, FailMetadata}

\* Open reaches the header code only past all of its error returns.
ReachesHeader(status) == status = OkStatus

\* A header emitted whether or not the stream was requested.
EmitsPrestreamAlways(hasTag) == TRUE

\* if (cc->Outputs().HasTag("VIDEO_PRESTREAM"))
EmitsPrestream(hasTag) == hasTag

\* Timestamp(cap_->get(cv::CAP_PROP_POS_MSEC) * 1000): microseconds.
Timestamp(pos_msec) == pos_msec * 1000

\* A gate that lets an equal timestamp through.
TimestampLessOrEqual(prev, timestamp) == prev <= timestamp

\* prev_timestamp_ < timestamp
TimestampLess(prev, timestamp) == prev < timestamp

\* A counter incremented for every decoded frame, emitted or not.
DecodedFramesAfterAlways(emit, decoded) == decoded + 1

\* decoded_frames_++, inside the gate
DecodedFramesAfter(emit, decoded) == IF emit THEN decoded + 1 ELSE decoded

\* An emission that forgets to move prev_timestamp_.
PrevTimestampAfterStale(emit, prev, timestamp) == prev

\* prev_timestamp_ = timestamp, inside the gate
PrevTimestampAfter(emit, prev, timestamp) == IF emit THEN timestamp ELSE prev

\* A prev_timestamp_ that starts at time zero.
InitialPrevTimestampZero == Timestamp(0)

\* Timestamp prev_timestamp_ = Timestamp::Unset();
InitialPrevTimestamp == TimestampUnset

\* A comparison that only notices frames that are missing.
FrameCountMismatchOnlyMissing(decoded, total) == decoded < total

\* if (decoded_frames_ != frame_count_)
FrameCountMismatch(decoded, total) == decoded # total

\* A Process that never reports the end of the file.
ProcessReturnNeverStops(frame) == OkStatus

\* if (frame.empty()) return tool::StatusStop(); ... return OkStatus();
ProcessReturn(frame) == IF frame = NoFrame THEN StatusStop ELSE OkStatus

PrestreamPacket(header) ==
  [tag |-> "VIDEO_PRESTREAM", timestamp |-> TimestampPreStream, header |-> header]

VideoPacket(frame, timestamp) ==
  [tag |-> "VIDEO", timestamp |-> timestamp, frame |-> frame,
   format |-> format_, width |-> width_, height |-> height_]

\* ------------------------------------------------------------ the file
RECURSIVE SeqsUpTo(_, _)
SeqsUpTo(S, n) ==
  IF n = 0 THEN {<<>>}
  ELSE LET shorter == SeqsUpTo(S, n - 1)
       IN shorter \cup {Append(s, x) : s \in {t \in shorter : Len(t) = n - 1}, x \in S}

\* A file that cannot be opened reports nothing and has no frames.
Unopenable ==
  [canOpen |-> FALSE, width |-> 0, height |-> 0, fps |-> 0, frame_count |-> 0,
   channels |-> 1, frames |-> <<>>, faultAt |-> 0]

Files ==
  {Unopenable} \cup
  {f \in [canOpen : {TRUE}, width : Widths, height : Heights, fps : FrameRates,
          frame_count : FrameCounts, channels : ChannelCounts,
          frames : SeqsUpTo(Positions, MaxFrames), faultAt : 0..MaxFrames] :
     f.faultAt <= Len(f.frames)}

\* ------------------------------------------------------------ behaviour
Init ==
  /\ file \in Files
  /\ hasPrestream \in BOOLEAN
  /\ cap_ = NullCap
  /\ width_ = Uninit
  /\ height_ = Uninit
  /\ frame_count_ = Uninit
  /\ decoded_frames_ = 0
  /\ format_ = UninitFormat
  /\ prev_timestamp_ = InitialPrevTimestamp
  /\ outputs = <<>>
  /\ prestreamClosed = FALSE
  /\ warnings = <<>>
  /\ openStatus = NotCalled
  /\ closeCalls = 0
  /\ endCalls = 0
  /\ last = [op |-> "none", status |-> NotCalled]

\* ::mediapipe::Status Open(CalculatorContext* cc)
Open ==
  /\ openStatus = NotCalled
  /\ closeCalls = 0
  /\ LET status == OpenReturn(file)
         probed == CapRead(VideoCapture(file), file).cap
         header == VideoHeader(GetImageFormat(file.channels), file.width,
                               file.height, file.fps, file.frame_count)
         emits == ReachesHeader(status) /\ EmitsPrestream(hasPrestream)
     IN /\ cap_' = IF status = FailOpen THEN VideoCapture(file)
                   ELSE IF status = OkStatus THEN CapRewind(probed)
                   ELSE probed
        /\ width_' = IF status = FailOpen THEN width_ ELSE file.width
        /\ height_' = IF status = FailOpen THEN height_ ELSE file.height
        /\ frame_count_' = IF status = FailOpen THEN frame_count_ ELSE file.frame_count
        /\ format_' = IF status \in {FailOpen, FailRead} THEN format_
                      ELSE GetImageFormat(file.channels)
        /\ outputs' = IF emits THEN Append(outputs, PrestreamPacket(header))
                      ELSE outputs
        /\ prestreamClosed' = (prestreamClosed \/ emits)
        /\ openStatus' = status
        /\ last' = [op |-> "Open", status |-> status]
  /\ UNCHANGED <<file, hasPrestream, decoded_frames_, prev_timestamp_, warnings,
                 closeCalls, endCalls>>

\* ::mediapipe::Status Process(CalculatorContext* cc)
Process ==
  /\ openStatus = OkStatus
  /\ closeCalls = 0
  /\ endCalls < MaxEndCalls
  /\ LET timestamp == Timestamp(CapGetPosMsec(cap_))
         rd == CapRead(cap_, file)
         status == ProcessReturn(rd.frame)
         emit == status = OkStatus /\ TimestampLess(prev_timestamp_, timestamp)
     IN /\ cap_' = rd.cap
        /\ outputs' = IF emit THEN Append(outputs, VideoPacket(rd.frame, timestamp))
                      ELSE outputs
        /\ prev_timestamp_' = PrevTimestampAfter(emit, prev_timestamp_, timestamp)
        /\ decoded_frames_' = DecodedFramesAfter(emit, decoded_frames_)
        /\ endCalls' = IF rd.frame = NoFrame THEN endCalls + 1 ELSE endCalls
        /\ last' = [op |-> "Process", status |-> status, frame |-> rd.frame,
                    timestamp |-> timestamp, emitted |-> emit,
                    prev |-> prev_timestamp_]
  /\ UNCHANGED <<file, hasPrestream, width_, height_, frame_count_, format_,
                 prestreamClosed, warnings, openStatus, closeCalls>>

\* ::mediapipe::Status Close(CalculatorContext* cc)
\* frame_count_ is read even when no Open has assigned it; the comparison
\* with such an indeterminate value may come out either way.
Close ==
  /\ closeCalls < MaxCloses
  /\ \E mismatch \in (IF frame_count_ = Uninit THEN BOOLEAN
                      ELSE {FrameCountMismatch(decoded_frames_, frame_count_)}) :
        warnings' = IF mismatch
                    THEN Append(warnings, [total |-> frame_count_,
                                           decoded |-> decoded_frames_])
                    ELSE warnings
  /\ cap_' = CapRelease(cap_)
  /\ closeCalls' = closeCalls + 1
  /\ last' = [op |-> "Close", status |-> OkStatus]
  /\ UNCHANGED <<file, hasPrestream, width_, height_, frame_count_,
                 decoded_frames_, format_, prev_timestamp_, outputs,
                 prestreamClosed, openStatus, endCalls>>

Next == Open \/ Process \/ Close

Spec == Init /\ [][Next]_vars

\* ------------------------------------------------------------ observations
\* The packets on VIDEO and on VIDEO_PRESTREAM, in emission order.
VideoPackets == SelectSeq(outputs, LAMBDA p : p.tag = "VIDEO")
HeaderPackets == SelectSeq(outputs, LAMBDA p : p.tag = "VIDEO_PRESTREAM")

\* The timestamp a frame of the file carries itself: the session's position
\* once that frame has been decoded, in microseconds.
OwnTimestamp(i) == Timestamp(file.frames[i + 1])

\* The frames kept when each frame later than the last kept one is kept.
RECURSIVE KeptFrom(_, _)
KeptFrom(ts, prev) ==
  IF ts = <<>> THEN <<>>
  ELSE IF prev < Head(ts) THEN <<Head(ts)>> \o KeptFrom(Tail(ts), Head(ts))
  ELSE KeptFrom(Tail(ts), prev)

\* The pixel format a channel count stands for.
FormatOfChannels(n) ==
  IF n = 1 THEN GRAY8 ELSE IF n = 3 THEN SRGB ELSE IF n = 4 THEN SRGBA ELSE UNKNOWN

OpenFailed == openStatus \notin {NotCalled, OkStatus}

\* ------------------------------------------------------------ C1
C1_Increasing ==
  \A i, j \in DOMAIN VideoPackets :
     i < j => VideoPackets[i].timestamp < VideoPackets[j].timestamp

C1_DropStep ==
  (/\ last'.op = "Process"
   /\ last'.frame # NoFrame
   /\ last'.timestamp <= prev_timestamp_)
  => (outputs' = outputs /\ last'.status = OkStatus)

\* C1: after a successful Open the timestamps of the frames emitted on VIDEO
\* are strictly increasing, and a Process call that decodes a frame whose
\* timestamp (the raw position the session returned to that call) is not
\* greater than the last emitted timestamp emits nothing and returns OK.
C1_Monotonic == []C1_Increasing /\ [][C1_DropStep]_vars

\* A frame was decoded and dropped, the call returned OK, after two emissions.
C1_Witness ==
  /\ last.op = "Process"
  /\ last.frame # NoFrame
  /\ last.timestamp <= last.prev
  /\ ~last.emitted
  /\ last.status = OkStatus
  /\ Len(VideoPackets) >= 2

\* ------------------------------------------------------------ C2
\* C2: the emitted timestamps are exactly the frames' own timestamps, each
\* kept when strictly greater than the last kept one, over the frames that
\* Process has decoded so far.
C2_ExactSubsequence ==
  openStatus = OkStatus =>
    [i \in DOMAIN VideoPackets |-> VideoPackets[i].timestamp]
      = KeptFrom([i \in 1..cap_.idx |-> OwnTimestamp(i - 1)], TimestampUnset)

\* The timestamps Process derived for the frames it has decoded so far: the
\* position before each decode, 0 for frame 0 after the rewind.
DerivedTimestamps ==
  [i \in 1..cap_.idx |-> IF i = 1 THEN Timestamp(0) ELSE OwnTimestamp(i - 2)]

\* What does hold of the gate: on the timestamps Process derives, it keeps
\* exactly the frames later than the last kept one.
GateExactOnDerived ==
  openStatus = OkStatus =>
    [i \in DOMAIN VideoPackets |-> VideoPackets[i].timestamp]
      = KeptFrom(DerivedTimestamps, TimestampUnset)

\* ------------------------------------------------------------ C3
C3_Header ==
  /\ (openStatus = NotCalled => outputs = <<>>)
  /\ (~hasPrestream => HeaderPackets = <<>>)
  /\ (hasPrestream /\ openStatus = OkStatus =>
        /\ Len(HeaderPackets) = 1
        /\ outputs[1].tag = "VIDEO_PRESTREAM"
        /\ outputs[1].timestamp = TimestampPreStream
        /\ \A i \in DOMAIN VideoPackets :
              outputs[1].timestamp < VideoPackets[i].timestamp
        /\ prestreamClosed)

C3_OnlyOpenEmits ==
  HeaderPackets' # HeaderPackets => (last'.op = "Open" /\ prestreamClosed')

\* C3: with VIDEO_PRESTREAM requested and Open successful there is exactly
\* one header over the whole run, put on the stream by Open at
\* Timestamp::PreStream() ahead of every frame, and the stream is closed in
\* the same call; no Process or Close adds to it; without the tag there is
\* never a header.
C3_HeaderOnce == []C3_Header /\ [][C3_OnlyOpenEmits]_vars

\* Header, then frames, then Close: still one header, first in the output.
C3_Witness ==
  /\ hasPrestream
  /\ openStatus = OkStatus
  /\ Len(HeaderPackets) = 1
  /\ Len(VideoPackets) >= 2
  /\ closeCalls >= 1

\* ------------------------------------------------------------ C4
\* C4: when Open has failed, whatever the reason, nothing is on either
\* output stream and VIDEO_PRESTREAM has not been closed.
C4_NoOutputOnFailure == OpenFailed => (outputs = <<>> /\ ~prestreamClosed)

\* Open failed on its last check with the header stream requested.
C4_Witness ==
  /\ openStatus = FailMetadata
  /\ hasPrestream
  /\ outputs = <<>>
  /\ ~prestreamClosed

\* ------------------------------------------------------------ C5
\* C5: a successful Open leaves the session positioned at frame 0, the
\* first Process call that decodes a frame emits it, and so the first
\* frame on VIDEO is the file's frame 0.
C5_FirstFrame ==
  /\ (last.op = "Open" /\ last.status = OkStatus => cap_.isOpened /\ cap_.idx = 0)
  /\ (VideoPackets # <<>> => VideoPackets[1].frame = 0)
  /\ (openStatus = OkStatus /\ cap_.idx >= 1 => VideoPackets # <<>>)

\* A file of several frames whose frame 0 is on VIDEO first.
C5_Witness ==
  /\ Len(file.frames) >= 2
  /\ cap_.idx >= 2
  /\ VideoPackets # <<>>
  /\ VideoPackets[1].frame = 0

\* ------------------------------------------------------------ C6
C6_StopState ==
  (endCalls > 0 /\ last.op = "Process") =>
     (last.status = StatusStop /\ last.frame = NoFrame /\ ~last.emitted)

C6_StopStep ==
  (endCalls' > 0 /\ last'.op = "Process") => outputs' = outputs

\* C6: the Process call that finds no further frame, and every Process call
\* after it, returns the stop status and adds nothing to VIDEO.
C6_Exhaustion == []C6_StopState /\ [][C6_StopStep]_vars

\* A second Process call after the end of the file has returned stop.
C6_Witness ==
  /\ endCalls >= 2
  /\ cap_.idx = Len(file.frames)
  /\ last.op = "Process"
  /\ last.status = StatusStop
  /\ Len(VideoPackets) >= 1

\* ------------------------------------------------------------ C7
\* C7: once a probe frame has been read, format_ is fixed by its channel
\* count alone (1 GRAY8, 3 SRGB, 4 SRGBA, anything else UNKNOWN); with
\* UNKNOWN, Open fails with the unsupported-format error and nothing is
\* on either output stream.
C7_FormatMapping ==
  openStatus \notin {NotCalled, FailOpen, FailRead} =>
    /\ format_ = FormatOfChannels(file.channels)
    /\ (file.channels \notin {1, 3, 4} =>
          /\ format_ = UNKNOWN
          /\ openStatus = FailFormat
          /\ outputs = <<>>)
    /\ (openStatus = FailFormat => file.channels \notin {1, 3, 4})

\* Open failed on a two-channel probe frame.
C7_Witness ==
  /\ openStatus = FailFormat
  /\ file.channels = 2
  /\ format_ = UNKNOWN
  /\ outputs = <<>>

\* ------------------------------------------------------------ C8
\* The file's first frame exists and can be decoded.
ProbeReadable == file.frames # <<>> /\ file.faultAt # 1

NonPositiveMetadata ==
  file.fps <= 0 \/ file.frame_count <= 0 \/ file.width <= 0 \/ file.height <= 0

\* C8 as stated: non-positive probed metadata always ends Open with the
\* invalid-metadata error and without output.
C8_AsStated ==
  (openStatus # NotCalled /\ file.canOpen /\ NonPositiveMetadata) =>
     (openStatus = FailMetadata /\ outputs = <<>>)

\* C8 (amended): with non-positive probed metadata Open fails and produces
\* no output, with the invalid-metadata error whenever the session opened,
\* a probe frame was read and its channel count is supported (an earlier
\* failing check reports its own error instead); Open succeeds only with
\* all four values positive and a known pixel format.
C8_MetadataValidation ==
  openStatus # NotCalled =>
    /\ (file.canOpen /\ NonPositiveMetadata => OpenFailed /\ outputs = <<>>)
    /\ (file.canOpen /\ ProbeReadable /\ file.channels \in {1, 3, 4}
          /\ NonPositiveMetadata => openStatus = FailMetadata)
    /\ (openStatus = FailMetadata => NonPositiveMetadata)
    /\ (openStatus = OkStatus =>
          /\ file.fps > 0 /\ file.frame_count > 0
          /\ file.width > 0 /\ file.height > 0
          /\ format_ \in {GRAY8, SRGB, SRGBA})

\* Only the height is non-positive and Open reported invalid metadata.
C8_Witness ==
  /\ openStatus = FailMetadata
  /\ file.height <= 0
  /\ file.fps > 0 /\ file.frame_count > 0 /\ file.width > 0
  /\ outputs = <<>>

\* ------------------------------------------------------------ C9
\* C9: the header on VIDEO_PRESTREAM carries the channel-count-derived
\* format, the probed width, height and frame rate, and a duration equal
\* to frame count / frame rate.
C9_HeaderContents ==
  \A i \in DOMAIN HeaderPackets :
    LET h == HeaderPackets[i].header
    IN /\ h.format = FormatOfChannels(file.channels)
       /\ h.width = file.width
       /\ h.height = file.height
       /\ h.frame_rate = file.fps
       /\ h.duration.den > 0
       /\ h.duration.num * file.fps = h.duration.den * file.frame_count

\* Frame rate 30 and frame count 90: a header with duration 3.
C9_Witness ==
  /\ Len(HeaderPackets) = 1
  /\ file.fps = 30
  /\ file.frame_count = 90
  /\ HeaderPackets[1].header.duration = [num |-> 3, den |-> 1]
  /\ HeaderPackets[1].header.format = SRGB

\* ------------------------------------------------------------ C10
\* C10: Close returns OK wherever in the lifecycle it is called, and once
\* it has been called the decode session is not open.
C10_CloseSafe ==
  /\ (last.op = "Close" => last.status = OkStatus)
  /\ (closeCalls > 0 => ~cap_.isOpened)

\* Close after an Open that failed with the session already opened.
C10_Witness ==
  /\ last.op = "Close"
  /\ openStatus \in {FailRead, FailFormat, FailMetadata}
  /\ file.canOpen
  /\ ~cap_.isOpened

\* Close before any Open, mid-stream, and after the end of the file.
C10_WitnessBeforeOpen == last.op = "Close" /\ openStatus = NotCalled
C10_WitnessMidStream ==
  /\ last.op = "Close" /\ openStatus = OkStatus
  /\ endCalls = 0 /\ cap_.idx >= 1 /\ cap_.idx < Len(file.frames)
C10_WitnessAfterEnd == last.op = "Close" /\ openStatus = OkStatus /\ endCalls > 0

\* ------------------------------------------------------------ C11
\* C11: after a successful Open every Close call writes the frame-count
\* warning exactly when the number of frames emitted on VIDEO differs from
\* the probed frame count; the warning carries both counts, and Close
\* returns OK all the same.
C11_MismatchDiagnostic ==
  openStatus = OkStatus =>
    /\ Len(warnings) =
         IF Len(VideoPackets) # file.frame_count THEN closeCalls ELSE 0
    /\ \A i \in DOMAIN warnings :
          warnings[i] = [total |-> file.frame_count, decoded |-> Len(VideoPackets)]
    /\ (last.op = "Close" => last.status = OkStatus)

\* More frames emitted than the container announced: one warning, 2 vs 3.
C11_Witness ==
  /\ openStatus = OkStatus
  /\ closeCalls = 1
  /\ Len(VideoPackets) = 3
  /\ warnings = <<[total |-> 2, decoded |-> 3]>>

\* As many frames emitted as announced: Close is silent.
C11_WitnessSilent ==
  /\ openStatus = OkStatus
  /\ closeCalls = 1
  /\ Len(VideoPackets) = file.frame_count
  /\ warnings = <<>>

\* ------------------------------------------------------------ C12
\* C12: when Open failed because the file could not be opened, a following
\* Close releases nothing and writes no frame-count warning.
C12_NoDiagnosticAfterOpenError ==
  openStatus = FailOpen =>
    /\ warnings = <<>>
    /\ (closeCalls > 0 => cap_ = VideoCapture(file))

\* ------------------------------------------------------------ C13
C13_SecondClose ==
  (openStatus = OkStatus /\ last.op = "Close" /\ last'.op = "Close") =>
     /\ ~cap_'.isOpened
     /\ last'.status = OkStatus
     /\ UNCHANGED <<cap_, width_, height_, frame_count_, decoded_frames_,
                    format_, prev_timestamp_, outputs, prestreamClosed>>
     /\ warnings' = warnings
     /\ Len(warnings') <= 1

\* C13: after a run that opened the file, a second Close changes nothing the
\* first one left: the session
\* stays released, no member and no output changes, OK is returned, and no
\* further frame-count warning is written, so the run holds at most one.
C13_CloseIdempotent == [][C13_SecondClose]_vars

\* ------------------------------------------------------------ C14
\* C14: Process returns the stop status only when the file has no further
\* frame; a frame that is in the file but cannot be decoded makes Process
\* return an error, neither stop nor OK.
C14_FaultIsError ==
  (last.op = "Process" /\ last.frame = NoFrame) =>
     IF cap_.idx = Len(file.frames)
     THEN last.status = StatusStop
     ELSE last.status \notin {StatusStop, OkStatus}

\* ------------------------------------------------------------ C15
\* C15: the timestamp on every VIDEO packet is the session's position once
\* that very frame has been decoded (milliseconds times 1000), not the
\* position the session had before the decode.
C15_TimestampOfDecodedFrame ==
  \A i \in DOMAIN VideoPackets :
     VideoPackets[i].timestamp = OwnTimestamp(VideoPackets[i].frame)

\* ------------------------------------------------------------ C16
C16_Emits == Len(VideoPackets') = Len(VideoPackets) + 1

C16_Step ==
  /\ (C16_Emits =>
        /\ last'.op = "Process"
        /\ prev_timestamp_' = VideoPackets'[Len(VideoPackets')].timestamp
        /\ decoded_frames_' = decoded_frames_ + 1)
  /\ (~C16_Emits =>
        /\ VideoPackets' = VideoPackets
        /\ UNCHANGED <<prev_timestamp_, decoded_frames_>>)
  /\ (last'.op \in {"Open", "Close"} => ~C16_Emits)

\* C16: prev_timestamp_ and decoded_frames_ change only in a Process call
\* that emits a frame, which sets prev_timestamp_ to the emitted timestamp
\* and adds exactly 1 to decoded_frames_; a Process call that drops a frame
\* or returns stop, and every Open and Close, leave both as they were.
C16_EmissionStateFrame == [][C16_Step]_vars

\* A Process call has just dropped a decoded frame after two emissions,
\* with the emission state still that of the second emission.
C16_Witness ==
  /\ last.op = "Process"
  /\ last.frame # NoFrame
  /\ ~last.emitted
  /\ decoded_frames_ = 2
  /\ prev_timestamp_ = last.prev
  /\ prev_timestamp_ = VideoPackets[2].timestamp

\* ------------------------------------------------------------ C17
\* Frames Process has decoded so far: Open rewinds before the first call.
DecodedByProcess == IF openStatus = OkStatus THEN cap_.idx ELSE 0

\* C17: decoded_frames_ is the number of frames on VIDEO and at most the
\* number of frames Process has decoded; prev_timestamp_ is Unset exactly
\* while VIDEO is empty and otherwise the timestamp of the latest frame.
C17_EmissionInvariant ==
  /\ decoded_frames_ = Len(VideoPackets)
  /\ decoded_frames_ <= DecodedByProcess
  /\ (prev_timestamp_ = TimestampUnset <=> VideoPackets = <<>>)
  /\ (VideoPackets # <<>> =>
        prev_timestamp_ = VideoPackets[Len(VideoPackets)].timestamp)

\* Three frames decoded, two of them emitted.
C17_Witness ==
  /\ DecodedByProcess = 3
  /\ decoded_frames_ = 2
  /\ Len(VideoPackets) = 2
  /\ prev_timestamp_ = Timestamp(33)

\* ------------------------------------------------------------ C18
\* The error the first failing check of Open reports, check by check.
FirstFailingCheck ==
  IF ~file.canOpen THEN FailOpen
  ELSE IF ~ProbeReadable THEN FailRead
  ELSE IF file.channels \notin {1, 3, 4} THEN FailFormat
  ELSE IF NonPositiveMetadata THEN FailMetadata
  ELSE OkStatus

\* C18: Open reports the first failing check in the order: session cannot
\* be opened, no probe frame readable, unsupported channel count,
\* non-positive metadata.
C18_CheckOrder == openStatus # NotCalled => openStatus = FirstFailingCheck

\* Unsupported channel count and non-positive metadata together: the
\* unsupported-format error wins.
C18_Witness ==
  /\ openStatus = FailFormat
  /\ file.channels = 2
  /\ NonPositiveMetadata

\* Non-positive metadata and no readable frame: the read error wins.
C18_WitnessNoFrame ==
  /\ openStatus = FailRead
  /\ file.canOpen
  /\ NonPositiveMetadata

\* ------------------------------------------------------------ C19
\* C19: the Process call that decodes the first frame after a successful
\* Open finds prev_timestamp_ Unset and emits that frame, also when its
\* timestamp is 0.
C19_FirstFrameNotDropped ==
  (last.op = "Process" /\ last.frame = 0) =>
     /\ last.prev = TimestampUnset
     /\ last.status = OkStatus
     /\ Len(VideoPackets) = 1
     /\ VideoPackets[1].frame = 0
     /\ VideoPackets[1].timestamp = last.timestamp

\* The first frame went out with timestamp 0.
C19_Witness ==
  /\ last.op = "Process"
  /\ last.frame = 0
  /\ last.timestamp = 0
  /\ VideoPackets # <<>>
  /\ VideoPackets[1].timestamp = 0

====
